---- MODULE Spec2Model ----
(***************************************************************************)
(* Render-pipeline core of Egregoria: MeshBuilder / Mesh (lit_mesh.rs),    *)
(* the UI blur pass (blur.rs) and the terrain streaming bridge             *)
(* (terrain.rs), as state machines.                                        *)
(***************************************************************************)
EXTENDS Integers, Sequences, FiniteSets, TLC

\* ---------------------------------------------------------------- bounds
MaxVertices == 2      \* most vertices a builder holds
MaxIndices == 2       \* most indices a builder holds
MaxMaterials == 3     \* most entries of the builder's material list
MaxBatchVerts == 1    \* most vertices passed to one extend call
MaxBatchIdx == 1      \* most indices passed to one extend call
MaxInIdx == 1         \* largest index value passed to extend
MaxPending == 22      \* most notifications pending for existing chunks
MaxMissing == 1       \* most notifications pending for chunks absent from the map
NumFrames == 6        \* distinct frames handed to gen_ui_blur
MaxRuns == 2          \* most material runs of a drawn Mesh
MaxRunLen == 3        \* longest material run of a drawn Mesh
MaxChildren == 2      \* most children of the WindowBase node
MaxViewport == 2      \* largest viewport width / height
MaxSize == 2          \* largest width / height calculate_layout returns
MaxOff == 1           \* largest |component| of a drag and of WindowBase.off

\* IndexType and the material offsets are u32. TLC's integers are 32-bit signed, so
\* a u32 value v is written v when v < 2^31 and v - 2^32 otherwise (its two's
\* complement reading): a negative number k stands for the u32 value 2^32 + k.
\* Addition and subtraction modulo 2^32 are then the integer ones, as long as the
\* result stays within the 32 bits, which the bounds above ensure.

MaterialID == {"A", "B"}

None == "None"

\* the mesh field of a call that returned no Mesh
NoMesh == [materials |-> <<>>, skip_depth |-> FALSE]

VARIABLES
    debug_assertions, \* cfg(debug_assertions): overflow checks, UPD_PER_FRAME
    PERSISTENT,       \* the const generic of MeshBuilder
    vertices,         \* MeshBuilder.vertices (vertex contents are opaque)
    indices,          \* MeshBuilder.indices
    vi_buffers,       \* MeshBuilder.vi_buffers: None or <<vertex PBuffer, index PBuffer>>
    materials,        \* MeshBuilder.materials: sequence of <<material, start offset>>
    call,             \* the last MeshBuilder call: its name and what it returned
    with_mat,         \* history: the builder was constructed by new(mat)
    cleared,          \* history: clear() has been called
    inputs_valid,     \* history: every extend so far got indices < its own vertex count
    pending,          \* MapSubscriber: dirty-chunk notifications not yet taken
    t_pc,             \* TerrainRender::update: "idle", "draining" (in the loop), "done"
    update_count,     \* the local update_count of the current / last update call
    uploads,          \* chunks written to the GPU height field by that call
    t_exit,           \* how that call left the loop
    start_pending,    \* history: notifications pending when that call began
    all_applied,      \* history: every notification it took was for an existing
                      \* chunk and its update_chunk returned true
    pipelines,        \* the pipeline cache: key -> 0 (no entry) or the number of the
                      \* compilation that made the cached pipeline
    builds,           \* key -> how many times the key's builder was invoked
    b_pc,             \* gen_ui_blur: "idle", "downscale", "upscale" (the loops), "done"
    mip_level,        \* gen_ui_blur: the loop variable
    passes,           \* encs.end: the passes recorded by the current / last gen_ui_blur
    ui_blur,          \* gfx.fbos.ui_blur: what each mip level holds
    mesh,             \* the Mesh drawn: [materials: <<material, length>> runs, skip_depth]
    transparent,      \* gfx.material(mat).transparent, per material
    rp,               \* the commands the last draw / draw_depth put on its RenderPass
    perf,             \* the telemetry the last draw / draw_depth emitted
    d_call,           \* the last Drawable call on the mesh and its shadow_cascade
    compiled,         \* key -> what the key's builder asked the gfx context to
                      \* compile (NoPipeline while the key has no cache entry)
    w_children,       \* the children of the WindowBase node in the dom
    w_off,            \* WindowBase.off
    w_resp,           \* WindowBase.resp: [off, confirm]
    w_pos,            \* ctx.layout: the position set for each child, in half units
    w_call            \* the last WindowBase call: its name and how it ended

meshVars == <<PERSISTENT, vertices, indices, vi_buffers, materials, call,
              with_mat, cleared, inputs_valid>>

terrainVars == <<pending, t_pc, update_count, uploads, t_exit, start_pending,
                 all_applied>>

cacheVars == <<pipelines, builds, compiled>>

blurVars == <<b_pc, mip_level, passes, ui_blur>>

drawVars == <<mesh, transparent, rp, perf, d_call>>

windowVars == <<w_children, w_off, w_resp, w_pos, w_call>>

vars == <<debug_assertions, meshVars, terrainVars, cacheVars, blurVars, drawVars,
          windowVars>>

\* ------------------------------------------------------------ PBuffer
\* A PBuffer is modelled by whether it holds a backing buffer.
PBufferNew == FALSE

\* write(data): uploads, allocating the backing buffer when data does not fit
\* (no data fits the buffer there is, even none)
PBufferWrite(buf, len) == buf \/ len > 0

\* inner(): the backing buffer, or None when there is none
PBufferInner(buf) == IF buf THEN "buffer" ELSE None

\* ------------------------------------------------------------ MeshBuilder
Vertex == "v"

VertexBatch(nv) == [i \in 1..nv |-> Vertex]

\* the vi_buffers field set by both constructors
NewViBuffers(persistent) ==
    IF persistent THEN <<PBufferNew, PBufferNew>> ELSE None

\* MeshBuilder::new(mat)
New(mat, persistent) ==
    /\ PERSISTENT = persistent
    /\ vertices = <<>>
    /\ indices = <<>>
    /\ vi_buffers = NewViBuffers(persistent)
    /\ materials = <<<<mat, 0>>>>
    /\ with_mat = TRUE

\* MeshBuilder::new_without_mat()
NewWithoutMat(persistent) ==
    /\ PERSISTENT = persistent
    /\ vertices = <<>>
    /\ indices = <<>>
    /\ vi_buffers = NewViBuffers(persistent)
    /\ materials = <<>>
    /\ with_mat = FALSE

\* (mutation) the index is stored as given, not offset
AddU32NoOffset(x, offset) == x

\* x + offset on IndexType
AddU32(x, offset) == x + offset

\* indices.iter().map(|x| x + offset)
OffsetIndices(idx, offset) == [i \in 1..Len(idx) |-> AddU32(idx[i], offset)]

\* the input indices all point into the batch they come with
LocallyValid(nv, idx) == \A i \in 1..Len(idx) : idx[i] < nv

\* the batches the model passes to extend / extend_with
IndexBatches ==
    UNION {[1..n -> 0..MaxInIdx] : n \in 0..MaxBatchIdx}

\* MeshBuilder::extend(vertices, indices)
Extend(nv, idx) ==
    /\ Len(vertices) + nv <= MaxVertices
    /\ Len(indices) + Len(idx) <= MaxIndices
    /\ LET offset == Len(vertices)
       IN /\ vertices' = vertices \o VertexBatch(nv)
          /\ indices' = indices \o OffsetIndices(idx, offset)
    /\ call' = [op |-> "extend", ret |-> "self", wrote |-> FALSE, mesh |-> NoMesh]
    /\ inputs_valid' = (inputs_valid /\ LocallyValid(nv, idx))
    /\ UNCHANGED <<terrainVars, cacheVars, blurVars, drawVars, windowVars, debug_assertions, PERSISTENT, vi_buffers, materials,
                   with_mat, cleared>>

\* MeshBuilder::extend_with(f): f pushes nv vertices and emits the indices idx;
\* the offset is read before f runs
ExtendWith(nv, idx) ==
    /\ Len(vertices) + nv <= MaxVertices
    /\ Len(indices) + Len(idx) <= MaxIndices
    /\ LET offset == Len(vertices)
       IN /\ vertices' = vertices \o VertexBatch(nv)
          /\ indices' = indices \o OffsetIndices(idx, offset)
    /\ call' = [op |-> "extend_with", ret |-> "unit", wrote |-> FALSE, mesh |-> NoMesh]
    /\ inputs_valid' = (inputs_valid /\ LocallyValid(nv, idx))
    /\ UNCHANGED <<terrainVars, cacheVars, blurVars, drawVars, windowVars, debug_assertions, PERSISTENT, vi_buffers, materials,
                   with_mat, cleared>>

\* (mutation) the new entry goes to the front of the list
PushMaterialFront(mats, entry) == <<entry>> \o mats

\* self.materials.push(..)
PushMaterial(mats, entry) == Append(mats, entry)

\* MeshBuilder::set_material(material)
SetMaterial(material) ==
    /\ Len(materials) < MaxMaterials
    /\ LET n == Len(indices)
       IN materials' = PushMaterial(materials, <<material, n>>)
    /\ call' = [op |-> "set_material", ret |-> "unit", wrote |-> FALSE, mesh |-> NoMesh]
    /\ UNCHANGED <<terrainVars, cacheVars, blurVars, drawVars, windowVars, debug_assertions, PERSISTENT, vertices, indices, vi_buffers,
                   with_mat, cleared, inputs_valid>>

\* MeshBuilder::clear()
Clear ==
    /\ vertices' = <<>>
    /\ indices' = <<>>
    /\ call' = [op |-> "clear", ret |-> "unit", wrote |-> FALSE, mesh |-> NoMesh]
    /\ cleared' = TRUE
    /\ UNCHANGED <<terrainVars, cacheVars, blurVars, drawVars, windowVars, debug_assertions, PERSISTENT, vi_buffers, materials,
                   with_mat, inputs_valid>>

\* end - start on u32: the wrapped difference (what a release build computes)
SubU32(end, start) == end - start

\* end - start overflows (a debug build panics there)
SubOverflows(end, start) == end < start

\* the end of entry i's range: the next entry's offset, else indices.len() as u32
RunEnd(mats, i, n) == IF i < Len(mats) THEN mats[i + 1][2] ELSE n

\* the while-let loop of build from entry i on: the runs pushed, or a panic
RECURSIVE ConvertFrom(_, _, _, _)
ConvertFrom(mats, i, n, dbg) ==
    IF i > Len(mats) THEN [panicked |-> FALSE, runs |-> <<>>]
    ELSE LET start == mats[i][2]
             end == RunEnd(mats, i, n)
             l == SubU32(end, start)
         IN IF dbg /\ SubOverflows(end, start)
            THEN [panicked |-> TRUE, runs |-> <<>>]
            ELSE LET rest == ConvertFrom(mats, i + 1, n, dbg)
                 IN IF rest.panicked THEN rest
                    ELSE IF l = 0 THEN rest
                    ELSE [panicked |-> FALSE,
                          runs |-> <<<<mats[i][1], l>>>> \o rest.runs]

\* convert materials to mesh format (from offsets to lengths)
ConvertMaterials(mats, n, dbg) == ConvertFrom(mats, 1, n, dbg)

\* the vertex and index PBuffer build writes to: the builder's own, or fresh ones
BuildBuffers == IF PERSISTENT THEN vi_buffers ELSE <<PBufferNew, PBufferNew>>

\* (mutation) the early return also asks for an empty index sequence
BuildEarlyReturnBoth == vertices = <<>> /\ indices = <<>>

\* build returns None at once when the builder holds no vertex
BuildEarlyReturn == vertices = <<>>

\* MeshBuilder::build(gfx). call.ret is "None", "Some" (with call.mesh the Mesh)
\* or "panic"; call.wrote tells whether the vertex and index buffers were written
Build ==
    /\ IF BuildEarlyReturn
       THEN /\ call' = [op |-> "build", ret |-> "None", wrote |-> FALSE,
                        mesh |-> NoMesh]
            /\ UNCHANGED vi_buffers
       ELSE LET vbuffer == PBufferWrite(BuildBuffers[1], Len(vertices))
                ibuffer == PBufferWrite(BuildBuffers[2], Len(indices))
                conv == ConvertMaterials(materials, Len(indices), debug_assertions)
                some == PBufferInner(vbuffer) # None /\ PBufferInner(ibuffer) # None
            IN /\ vi_buffers' = IF PERSISTENT THEN <<vbuffer, ibuffer>> ELSE None
               /\ call' = [op |-> "build", wrote |-> TRUE,
                           ret |-> IF conv.panicked THEN "panic"
                                   ELSE IF some THEN "Some" ELSE "None",
                           mesh |-> IF ~conv.panicked /\ some
                                    THEN [materials |-> conv.runs,
                                          skip_depth |-> FALSE]
                                    ELSE NoMesh]
    /\ UNCHANGED <<terrainVars, cacheVars, blurVars, drawVars, windowVars, debug_assertions, PERSISTENT, vertices, indices, materials,
                   with_mat, cleared, inputs_valid>>

\* ------------------------------------------------------------ TerrainRender
\* What update reads of a notification is whether its chunk is in the map, so the
\* subscriber's backlog is kept as the number of pending notifications of each kind.
NoPending == [existing |-> 0, missing |-> 0]

PendingTotal == pending.existing + pending.missing

\* const UPD_PER_FRAME: 8 with debug_assertions, 20 without
UPD_PER_FRAME == IF debug_assertions THEN 8 ELSE 20

\* if update_count > UPD_PER_FRAME { break; }
BudgetExhausted(count) == count > UPD_PER_FRAME

\* the map is edited between two frames: one more chunk is dirty
Notify(kind) ==
    /\ t_pc # "draining"
    /\ IF kind = "existing" THEN pending.existing < MaxPending
                            ELSE pending.missing < MaxMissing
    /\ pending' = [pending EXCEPT ![kind] = @ + 1]
    /\ t_pc' = "idle"
    /\ UNCHANGED <<update_count, uploads, t_exit, start_pending, all_applied>>
    /\ UNCHANGED <<windowVars, debug_assertions, meshVars, cacheVars, blurVars, drawVars>>

\* TerrainRender::update is entered: let mut update_count = 0
UpdateBegin ==
    /\ t_pc # "draining"
    /\ t_pc' = "draining"
    /\ update_count' = 0
    /\ uploads' = 0
    /\ t_exit' = "running"
    /\ start_pending' = PendingTotal
    /\ all_applied' = TRUE
    /\ UNCHANGED pending
    /\ UNCHANGED <<windowVars, debug_assertions, meshVars, cacheVars, blurVars, drawVars>>

\* take_one_updated_chunk() returns None: the while-let loop ends
UpdateDrained ==
    /\ t_pc = "draining"
    /\ PendingTotal = 0
    /\ t_pc' = "done"
    /\ t_exit' = "drained"
    /\ UNCHANGED <<pending, update_count, uploads, start_pending, all_applied>>
    /\ UNCHANGED <<windowVars, debug_assertions, meshVars, cacheVars, blurVars, drawVars>>

\* (mutation) the notification of a missing chunk is put back before returning
UpdateMissingChunkRequeued ==
    /\ t_pc = "draining"
    /\ pending.missing > 0
    /\ t_pc' = "done"
    /\ t_exit' = "nonexistent chunk"
    /\ all_applied' = FALSE
    /\ UNCHANGED <<pending, update_count, uploads, start_pending>>
    /\ UNCHANGED <<windowVars, debug_assertions, meshVars, cacheVars, blurVars, drawVars>>

\* the chunk taken is not in the map: unwrap_retlog! logs and returns from update
UpdateMissingChunk ==
    /\ t_pc = "draining"
    /\ pending.missing > 0
    /\ pending' = [pending EXCEPT !.missing = @ - 1]
    /\ t_pc' = "done"
    /\ t_exit' = "nonexistent chunk"
    /\ all_applied' = FALSE
    /\ UNCHANGED <<update_count, uploads, start_pending>>
    /\ UNCHANGED <<windowVars, debug_assertions, meshVars, cacheVars, blurVars, drawVars>>

\* the chunk taken is in the map: update_chunk is called and returns ok
UpdateChunk(ok) ==
    /\ t_pc = "draining"
    /\ pending.existing > 0
    /\ pending' = [pending EXCEPT !.existing = @ - 1]
    /\ IF ok
       THEN /\ update_count' = update_count + 1
            /\ uploads' = uploads + 1
            /\ IF BudgetExhausted(update_count')
               THEN t_pc' = "done" /\ t_exit' = "budget"
               ELSE UNCHANGED <<t_pc, t_exit>>
            /\ UNCHANGED all_applied
       ELSE /\ all_applied' = FALSE
            /\ UNCHANGED <<update_count, uploads, t_pc, t_exit>>
    /\ UNCHANGED start_pending
    /\ UNCHANGED <<windowVars, debug_assertions, meshVars, cacheVars, blurVars, drawVars>>

TerrainIdle ==
    /\ pending = NoPending
    /\ t_pc = "idle"
    /\ update_count = 0
    /\ uploads = 0
    /\ t_exit = "none"
    /\ start_pending = 0
    /\ all_applied = TRUE

TerrainNext ==
    \/ \E kind \in {"existing", "missing"} : Notify(kind)
    \/ UpdateBegin
    \/ UpdateDrained
    \/ UpdateMissingChunk
    \/ \E ok \in BOOLEAN : UpdateChunk(ok)

\* ------------------------------------------------------------ pipeline cache
MeshPipeline ==
    [ty : {"MeshPipeline"}, instanced : BOOLEAN, alpha : BOOLEAN,
     smap : BOOLEAN, depth : BOOLEAN]

UIBlurPipeline == [ty : {"UIBlurPipeline"}, variant : {"Downscale", "Upscale"}]

PipelineKeys == MeshPipeline \cup UIBlurPipeline

EmptyCache == [pipelines |-> [k \in PipelineKeys |-> 0],
               builds |-> [k \in PipelineKeys |-> 0]]

\* (mutation) the builder runs and its pipeline replaces the entry on every call
GetPipelineAlwaysBuild(cache, key) ==
    LET n == cache.builds[key] + 1
    IN [pipelines |-> [cache.pipelines EXCEPT ![key] = n],
        builds |-> [cache.builds EXCEPT ![key] = n],
        pipeline |-> n]

\* gfx.get_pipeline(key): the cache after the call and the pipeline returned
\* (the number of the compilation that made it)
GetPipeline(cache, key) ==
    IF cache.pipelines[key] # 0
    THEN [pipelines |-> cache.pipelines, builds |-> cache.builds,
          pipeline |-> cache.pipelines[key]]
    ELSE LET n == cache.builds[key] + 1
         IN [pipelines |-> [cache.pipelines EXCEPT ![key] = n],
             builds |-> [cache.builds EXCEPT ![key] = n],
             pipeline |-> n]

\* no builder has run for the key
NoPipeline == [fn |-> "none"]

\* const VB_INSTANCED / const VB: the vertex buffer layouts
VB_INSTANCED == <<"MeshVertex", "MeshInstance">>

VB == <<"MeshVertex">>

\* let vert = if self.instanced { "instanced_mesh.vert" } else { "lit_mesh.vert" }
MeshVert(key) == IF key.instanced THEN "instanced_mesh.vert" ELSE "lit_mesh.vert"

\* (mutation) the single-buffer layout whatever instanced is
MeshVbNeverInstanced(key) == VB

\* let vb = if self.instanced { VB_INSTANCED } else { VB }
MeshVb(key) == IF key.instanced THEN VB_INSTANCED ELSE VB

\* <MeshPipeline as PipelineBuilder>::build: the gfx call it returns the result of
MeshPipelineBuild(key) ==
    IF ~key.depth
    THEN [fn |-> "color_pipeline", label |-> "lit_mesh",
          layouts |-> <<"projection", "RenderParams", "Material", "bg_layout_litmesh">>,
          vb |-> MeshVb(key), vert |-> MeshVert(key), frag |-> "pixel.frag"]
    ELSE IF ~key.alpha
    THEN [fn |-> "depth_pipeline", vb |-> MeshVb(key), vert |-> MeshVert(key),
          frag |-> None, smap |-> key.smap]
    ELSE [fn |-> "depth_pipeline_bglayout", vb |-> MeshVb(key),
          vert |-> MeshVert(key), frag |-> "alpha_discard.frag",
          smap |-> key.smap, layouts |-> <<"projection", "Material">>]

\* <UIBlurPipeline as PipelineBuilder>::build
UIBlurPipelineBuild(key) ==
    [fn |-> "create_render_pipeline", label |-> "ui blur pipeline",
     layouts |-> <<"Texture">>, vb |-> <<>>, vert |-> "ui_blur:vert",
     frag |-> IF key.variant = "Downscale" THEN "ui_blur:downscale"
                                           ELSE "ui_blur:upscale"]

PipelineBuild(key) ==
    IF key \in MeshPipeline THEN MeshPipelineBuild(key) ELSE UIBlurPipelineBuild(key)

\* the builds that the misses of a call sequence ran, given the cache it left
CompileMisses(newPipelines) ==
    [k \in PipelineKeys |->
        IF pipelines[k] = 0 /\ newPipelines[k] # 0 THEN PipelineBuild(k)
                                                    ELSE compiled[k]]

\* gfx.get_pipeline(key), called by a drawable
GetPipelineCall(key) ==
    /\ LET got == GetPipeline([pipelines |-> pipelines, builds |-> builds], key)
       IN /\ pipelines' = got.pipelines
          /\ builds' = got.builds
    /\ compiled' = CompileMisses(pipelines')
    /\ UNCHANGED <<windowVars, debug_assertions, meshVars, terrainVars, blurVars, drawVars>>

PipelineNext == \E key \in MeshPipeline : GetPipelineCall(key)

CacheIdle ==
    /\ pipelines = EmptyCache.pipelines
    /\ builds = EmptyCache.builds
    /\ compiled = [k \in PipelineKeys |-> NoPipeline]

\* ------------------------------------------------------------ UI blur
DOWNSCALE_PASSES == 2

\* the frame view, as the source of a pass (the mip levels are 0..DOWNSCALE_PASSES)
FrameView == -1

Frames == 1..NumFrames

MipLevels == 0..DOWNSCALE_PASSES

BlurKey(variant) == [ty |-> "UIBlurPipeline", variant |-> variant]

\* a mip level nothing was rendered to
EmptyMip == [frame |-> 0, by |-> "none"]

\* (mutation) the downscale pass renders into the level it samples
DownscalePassInPlace(level) == <<level, level>>

\* the (src, dst) mip levels of the downscale pass of loop value level
DownscalePass(level) == <<level, level + 1>>

\* (mutation) the upscale pass renders in the direction of the downscale pass
UpscalePassAsDown(level) == <<level, level + 1>>

\* the (src, dst) mip levels of the upscale pass of loop value level
UpscalePass(level) == <<level + 1, level>>

\* the variant whose pipeline do_pass sets on the render pass
PassPipeline(pipeline) == "Downscale"

\* do_pass(gfx, encs, pipeline, src, dst): the cache, the pass list and the texture
\* after it. The bind group takes its layout from get_pipeline(pipeline); the
\* triangle is drawn with the pipeline set on the render pass.
DoPass(cache, pipeline, src, dst) ==
    LET pipe == GetPipeline(cache, BlurKey(pipeline))
        set == GetPipeline(pipe, BlurKey(PassPipeline(pipeline)))
    IN [pipelines |-> set.pipelines,
        builds |-> set.builds,
        passes |-> Append(passes, [pipeline |-> pipeline,
                                   bind_group_src |-> src,
                                   view |-> dst,
                                   set_pipeline |-> PassPipeline(pipeline)]),
        ui_blur |-> [ui_blur EXCEPT ![dst] =
                        [frame |-> ui_blur[src].frame,
                         by |-> PassPipeline(pipeline)]]]

\* gen_ui_blur is entered with a frame: initial_downscale, then the first loop
GenUiBlurBegin(frame) ==
    /\ b_pc \in {"idle", "done"}
    /\ passes' = <<[pipeline |-> "mipmap_gen", bind_group_src |-> FrameView,
                    view |-> 0, set_pipeline |-> "mipmap_gen"]>>
    /\ ui_blur' = [ui_blur EXCEPT ![0] = [frame |-> frame, by |-> "mipmap_gen"]]
    /\ IF DOWNSCALE_PASSES > 0
       THEN b_pc' = "downscale" /\ mip_level' = 0
       ELSE b_pc' = "done" /\ UNCHANGED mip_level
    /\ UNCHANGED <<windowVars, debug_assertions, meshVars, terrainVars, cacheVars, drawVars>>

\* one iteration of: for mip_level in 0..DOWNSCALE_PASSES
DownscaleStep ==
    /\ b_pc = "downscale"
    /\ LET p == DownscalePass(mip_level)
           r == DoPass([pipelines |-> pipelines, builds |-> builds],
                       "Downscale", p[1], p[2])
       IN /\ pipelines' = r.pipelines
          /\ builds' = r.builds
          /\ compiled' = CompileMisses(r.pipelines)
          /\ passes' = r.passes
          /\ ui_blur' = r.ui_blur
    /\ IF mip_level + 1 < DOWNSCALE_PASSES
       THEN mip_level' = mip_level + 1 /\ UNCHANGED b_pc
       ELSE mip_level' = DOWNSCALE_PASSES - 1 /\ b_pc' = "upscale"
    /\ UNCHANGED <<windowVars, debug_assertions, meshVars, terrainVars, drawVars>>

\* one iteration of: for mip_level in (0..DOWNSCALE_PASSES).rev()
UpscaleStep ==
    /\ b_pc = "upscale"
    /\ LET p == UpscalePass(mip_level)
           r == DoPass([pipelines |-> pipelines, builds |-> builds],
                       "Upscale", p[1], p[2])
       IN /\ pipelines' = r.pipelines
          /\ builds' = r.builds
          /\ compiled' = CompileMisses(r.pipelines)
          /\ passes' = r.passes
          /\ ui_blur' = r.ui_blur
    /\ IF mip_level > 0
       THEN mip_level' = mip_level - 1 /\ UNCHANGED b_pc
       ELSE b_pc' = "done" /\ UNCHANGED mip_level
    /\ UNCHANGED <<windowVars, debug_assertions, meshVars, terrainVars, drawVars>>

BlurIdle ==
    /\ b_pc = "idle"
    /\ mip_level = 0
    /\ passes = <<>>
    /\ ui_blur = [l \in MipLevels |-> EmptyMip]

BlurNext ==
    \/ \E frame \in Frames : GenUiBlurBegin(frame)
    \/ DownscaleStep
    \/ UpscaleStep

\* ------------------------------------------------------------ Mesh (Drawable)
MeshKey(instanced, alpha, smap, depth) ==
    [ty |-> "MeshPipeline", instanced |-> instanced, alpha |-> alpha,
     smap |-> smap, depth |-> depth]

\* Mesh::iter_materials from run i on: <<material, index offset, length>>
RECURSIVE IterMaterialsFrom(_, _, _)
IterMaterialsFrom(runs, i, offset) ==
    IF i > Len(runs) THEN <<>>
    ELSE <<<<runs[i][1], offset, runs[i][2]>>>>
             \o IterMaterialsFrom(runs, i + 1, offset + runs[i][2])

\* iter_materials without `offset += n`: every run starts at index 0
IterMaterialsNoAdvance(m) ==
    [i \in 1..Len(m.materials) |-> <<m.materials[i][1], 0, m.materials[i][2]>>]

IterMaterials(m) == IterMaterialsFrom(m.materials, 1, 0)

SetPipeline(key, pipeline) ==
    [cmd |-> "set_pipeline", key |-> key, pipeline |-> pipeline]

SetBindGroup(slot, bg, mat) ==
    [cmd |-> "set_bind_group", slot |-> slot, bg |-> bg, mat |-> mat]

DrawIndexed(first, end) == [cmd |-> "draw_indexed", first |-> first, end |-> end]

\* the body of the for loop of draw, from run i on: the cache, the commands and
\* the telemetry after it
RECURSIVE DrawRuns(_, _, _)
DrawRuns(cache, its, i) ==
    IF i > Len(its)
    THEN [pipelines |-> cache.pipelines, builds |-> cache.builds,
          rp |-> <<>>, perf |-> <<>>]
    ELSE LET mat == its[i][1]
             offset == its[i][2]
             length == its[i][3]
             key == MeshKey(FALSE, FALSE, FALSE, FALSE)
             got == GetPipeline(cache, key)
             rest == DrawRuns(got, its, i + 1)
         IN [pipelines |-> rest.pipelines, builds |-> rest.builds,
             rp |-> <<SetPipeline(key, got.pipeline),
                      SetBindGroup(2, "material", mat),
                      DrawIndexed(offset, offset + length)>> \o rest.rp,
             perf |-> <<[counter |-> "drawcall", tris |-> length \div 3,
                         shadow |-> FALSE]>> \o rest.perf]

\* Drawable::draw
Draw ==
    /\ LET r == DrawRuns([pipelines |-> pipelines, builds |-> builds],
                         IterMaterials(mesh), 1)
       IN /\ rp' = <<SetBindGroup(1, "render_params", None),
                     SetBindGroup(3, "simplelit_bg", None),
                     [cmd |-> "set_vertex_buffer"],
                     [cmd |-> "set_index_buffer"]>> \o r.rp
          /\ perf' = r.perf
          /\ pipelines' = r.pipelines
          /\ builds' = r.builds
          /\ compiled' = CompileMisses(r.pipelines)
    /\ d_call' = [op |-> "draw", shadow_cascade |-> FALSE]
    /\ UNCHANGED <<mesh, transparent>>
    /\ UNCHANGED <<windowVars, debug_assertions, meshVars, terrainVars, blurVars>>

\* (mutation) the skip_depth flag is not looked at
DepthNeverSkipped(m) == FALSE

\* if self.skip_depth { return; }
DepthSkipped(m) == m.skip_depth

\* (mutation) every run is drawn with the opaque depth pipeline
DepthAlphaOpaque(mat) == FALSE

\* the alpha field of the depth pipeline key: mat.transparent
DepthAlpha(mat) == transparent[mat]

\* if mat.transparent { rp.set_bind_group(1, &mat.bg, &[]); }
DepthBindsMaterial(mat) == transparent[mat]

\* the body of the for loop of draw_depth, from run i on
RECURSIVE DrawDepthRuns(_, _, _, _)
DrawDepthRuns(cache, its, i, shadow_cascade) ==
    IF i > Len(its)
    THEN [pipelines |-> cache.pipelines, builds |-> cache.builds,
          rp |-> <<>>, perf |-> <<>>]
    ELSE LET mat == its[i][1]
             offset == its[i][2]
             length == its[i][3]
             key == MeshKey(FALSE, DepthAlpha(mat), shadow_cascade, TRUE)
             got == GetPipeline(cache, key)
             rest == DrawDepthRuns(got, its, i + 1, shadow_cascade)
         IN [pipelines |-> rest.pipelines, builds |-> rest.builds,
             rp |-> <<SetPipeline(key, got.pipeline)>>
                    \o (IF DepthBindsMaterial(mat)
                        THEN <<SetBindGroup(1, "material", mat)>> ELSE <<>>)
                    \o <<DrawIndexed(offset, offset + length)>> \o rest.rp,
             perf |-> <<[counter |-> "depth_drawcall", tris |-> length \div 3,
                         shadow |-> shadow_cascade]>> \o rest.perf]

\* Drawable::draw_depth; shadow_cascade tells whether a cascade matrix was passed
DrawDepth(shadow_cascade) ==
    /\ IF DepthSkipped(mesh)
       THEN /\ rp' = <<>>
            /\ perf' = <<>>
            /\ UNCHANGED <<pipelines, builds, compiled>>
       ELSE LET r == DrawDepthRuns([pipelines |-> pipelines, builds |-> builds],
                                   IterMaterials(mesh), 1, shadow_cascade)
            IN /\ rp' = <<[cmd |-> "set_vertex_buffer"],
                          [cmd |-> "set_index_buffer"]>> \o r.rp
               /\ perf' = r.perf
               /\ pipelines' = r.pipelines
               /\ builds' = r.builds
               /\ compiled' = CompileMisses(r.pipelines)
    /\ d_call' = [op |-> "draw_depth", shadow_cascade |-> shadow_cascade]
    /\ UNCHANGED <<mesh, transparent>>
    /\ UNCHANGED <<windowVars, debug_assertions, meshVars, terrainVars, blurVars>>

\* the run lists of the meshes drawn: what build produces has no empty run
RunLists ==
    UNION {[1..n -> MaterialID \X (1..MaxRunLen)] : n \in 0..MaxRuns}

\* nothing drawn yet
DrawNone ==
    /\ rp = <<>>
    /\ perf = <<>>
    /\ d_call = [op |-> "none", shadow_cascade |-> FALSE]

\* no mesh to draw
DrawIdle ==
    /\ mesh = NoMesh
    /\ transparent = [m \in MaterialID |-> FALSE]
    /\ DrawNone

\* a Mesh (its skip_depth field is public) and the materials' transparency
DrawInit ==
    /\ mesh \in [materials : RunLists, skip_depth : BOOLEAN]
    /\ transparent \in [MaterialID -> BOOLEAN]
    /\ DrawNone

DrawNext ==
    \/ Draw
    \/ \E shadow_cascade \in BOOLEAN : DrawDepth(shadow_cascade)

\* ------------------------------------------------------------ WindowBase
\* Vec2 values are pairs; positions are kept in half units (twice the value), so
\* that `* 0.5` loses nothing.
Vec2(x, y) == <<x, y>>

ZERO == Vec2(0, 0)

VAdd(a, b) == Vec2(a[1] + b[1], a[2] + b[2])

VSub(a, b) == Vec2(a[1] - b[1], a[2] - b[2])

VTwice(a) == Vec2(2 * a[1], 2 * a[2])

\* Vec2::max: the component-wise maximum
VMax(a, b) == Vec2(IF a[1] >= b[1] THEN a[1] ELSE b[1],
                   IF a[2] >= b[2] THEN a[2] ELSE b[2])

WindowOffsets == (-MaxOff..MaxOff) \X (-MaxOff..MaxOff)

Viewports == (1..MaxViewport) \X (1..MaxViewport)

ChildSizes == (0..MaxSize) \X (0..MaxSize)

ChildIds == 1..MaxChildren

\* no position set for the child
NoPos == Vec2(-1, -1)

\* WindowBase::update: a confirmed drag moves the window for good
WindowUpdate(off, resp) ==
    IF resp.confirm
    THEN [off |-> VAdd(off, resp.off), resp |-> [resp EXCEPT !.off = ZERO]]
    ELSE [off |-> off, resp |-> resp]

\* Window::show: begin_widget runs update; then the drag state of the frame is
\* written into the response (dragging: a drag is under way, by drag so far)
Show(dragging, drag) ==
    /\ LET u == WindowUpdate(w_off, w_resp)
       IN /\ u.off \in WindowOffsets
          /\ w_off' = u.off
          /\ w_resp' = [off |-> IF dragging THEN drag ELSE u.resp.off,
                        confirm |-> ~dragging]
    /\ w_call' = [op |-> "show", ret |-> "()", msg |-> None,
                  laid_out |-> <<>>, set_pos |-> <<>>, vp |-> ZERO, size |-> ZERO]
    /\ UNCHANGED <<w_children, w_pos>>
    /\ UNCHANGED <<debug_assertions, meshVars, terrainVars, cacheVars, blurVars,
                   drawVars>>

\* (mutation) the check lets two children through
TooManyChildrenOffByOne(n) == n > 2

\* if node.children.len() > 1 { panic!(..) }
TooManyChildren(n) == n > 1

\* the position layout gives the child, in half units: centred, moved by the
\* offsets, pushed back by what sticks out at the far edge, then kept >= 0
WindowPos(vp, size, off, resp_off) ==
    LET centred == VAdd(VSub(vp, size), VAdd(VTwice(off), VTwice(resp_off)))
        overflow == VMax(VSub(VAdd(centred, VTwice(size)), VTwice(vp)), ZERO)
    IN VMax(VSub(centred, overflow), ZERO)

\* WindowBase::layout with the viewport size vp; size is what calculate_layout
\* returns for the child
Layout(vp, size) ==
    /\ IF TooManyChildren(Len(w_children))
       THEN /\ w_call' = [op |-> "layout", ret |-> "panic",
                          msg |-> "Window can only have one child",
                          laid_out |-> <<>>, set_pos |-> <<>>,
                          vp |-> vp, size |-> size]
            /\ UNCHANGED w_pos
       ELSE IF w_children = <<>>
       THEN /\ w_call' = [op |-> "layout", ret |-> "panic",
                          msg |-> "unwrap on None",
                          laid_out |-> <<>>, set_pos |-> <<>>,
                          vp |-> vp, size |-> size]
            /\ UNCHANGED w_pos
       ELSE LET child == Head(w_children)
            IN /\ w_pos' = [w_pos EXCEPT
                               ![child] = WindowPos(vp, size, w_off, w_resp.off)]
               /\ w_call' = [op |-> "layout", ret |-> "ZERO", msg |-> None,
                             laid_out |-> <<child>>, set_pos |-> <<child>>,
                             vp |-> vp, size |-> size]
    /\ UNCHANGED <<w_children, w_off, w_resp>>
    /\ UNCHANGED <<debug_assertions, meshVars, terrainVars, cacheVars, blurVars,
                   drawVars>>

\* WindowBase::new (Default) on a node without children, nothing called yet
WindowNew ==
    /\ w_off = ZERO
    /\ w_resp = [off |-> ZERO, confirm |-> FALSE]
    /\ w_pos = [c \in ChildIds |-> NoPos]
    /\ w_call = [op |-> "new", ret |-> "()", msg |-> None,
                 laid_out |-> <<>>, set_pos |-> <<>>, vp |-> ZERO, size |-> ZERO]

WindowIdle == w_children = <<>> /\ WindowNew

\* the node has any number of children up to MaxChildren
WindowInit ==
    /\ w_children \in {[i \in 1..n |-> i] : n \in 0..MaxChildren}
    /\ WindowNew

WindowNext ==
    \/ \E dragging \in BOOLEAN : \E drag \in WindowOffsets : Show(dragging, drag)
    \/ \E vp \in Viewports : \E size \in ChildSizes : Layout(vp, size)

MeshInit ==
    /\ debug_assertions \in BOOLEAN
    /\ \E persistent \in BOOLEAN :
           \/ \E mat \in MaterialID : New(mat, persistent)
           \/ NewWithoutMat(persistent)
    /\ call = [op |-> "new", ret |-> "self", wrote |-> FALSE, mesh |-> NoMesh]
    /\ cleared = FALSE
    /\ inputs_valid = TRUE

\* a builder nobody uses
MeshIdle ==
    /\ NewWithoutMat(FALSE)
    /\ call = [op |-> "new", ret |-> "self", wrote |-> FALSE, mesh |-> NoMesh]
    /\ cleared = FALSE
    /\ inputs_valid = TRUE

MeshNext ==
    \/ \E nv \in 0..MaxBatchVerts : \E idx \in IndexBatches : Extend(nv, idx)
    \/ \E nv \in 0..MaxBatchVerts : \E idx \in IndexBatches : ExtendWith(nv, idx)
    \/ \E material \in MaterialID : SetMaterial(material)
    \/ Clear
    \/ Build

InitMesh == MeshInit /\ TerrainIdle /\ CacheIdle /\ BlurIdle /\ DrawIdle /\ WindowIdle

SpecMesh == InitMesh /\ [][MeshNext]_vars

InitTerrain ==
    debug_assertions \in BOOLEAN /\ MeshIdle /\ TerrainIdle /\ CacheIdle /\ BlurIdle /\ DrawIdle
        /\ WindowIdle

SpecTerrain == InitTerrain /\ [][TerrainNext]_vars

\* a step of the render loop's update call: it is entered once per frame and,
\* once entered, runs on until it returns
TerrainUpdateStep ==
    \/ UpdateBegin
    \/ UpdateDrained
    \/ UpdateMissingChunk
    \/ \E ok \in BOOLEAN : UpdateChunk(ok)

SpecTerrainFair ==
    InitTerrain /\ [][TerrainNext]_vars /\ WF_vars(TerrainUpdateStep)

InitBlur ==
    debug_assertions \in BOOLEAN /\ MeshIdle /\ TerrainIdle /\ CacheIdle /\ BlurIdle /\ DrawIdle
        /\ WindowIdle

SpecBlur == InitBlur /\ [][BlurNext]_vars

InitDraw ==
    debug_assertions \in BOOLEAN /\ MeshIdle /\ TerrainIdle /\ CacheIdle /\ BlurIdle
        /\ DrawInit /\ WindowIdle

SpecDraw == InitDraw /\ [][DrawNext]_vars

InitPipeline ==
    debug_assertions = FALSE /\ MeshIdle /\ TerrainIdle /\ CacheIdle /\ BlurIdle
        /\ DrawIdle /\ WindowIdle

SpecPipeline == InitPipeline /\ [][PipelineNext]_vars

InitWindow ==
    debug_assertions = FALSE /\ MeshIdle /\ TerrainIdle /\ CacheIdle /\ BlurIdle
        /\ DrawIdle /\ WindowInit

SpecWindow == InitWindow /\ [][WindowNext]_vars

\* ================================================================ properties
\* ---------------------------------------------------------------- MeshBuilder
Offsets == [i \in 1..Len(materials) |-> materials[i][2]]

\* the run lengths of a Mesh; a negative one stands for the u32 value 2^32 + l
RunLengths(m) == [i \in 1..Len(m.materials) |-> m.materials[i][2]]

RECURSIVE SumSeq(_)
SumSeq(s) == IF s = <<>> THEN 0 ELSE Head(s) + SumSeq(Tail(s))

\* the run lengths add up to n: none is 2^31 or more, and their sum is n
SumsTo(lens, n) == (\A i \in 1..Len(lens) : lens[i] >= 0) /\ SumSeq(lens) = n

\* C1: a build() that returns a Mesh returns runs whose lengths sum to the
\* builder's index count, none of them of length zero.
C1_RunsSumToIndexCount ==
    (call.op = "build" /\ call.ret = "Some") =>
        /\ SumsTo(RunLengths(call.mesh), Len(indices))
        /\ \A i \in 1..Len(call.mesh.materials) : call.mesh.materials[i][2] # 0

\* The runs as the specification words them: entry i covers the half-open range
\* from its offset to the next entry's offset (the index count for the last one),
\* entries with an empty range are dropped, the order is kept, nothing is merged.
RangeEnd(mats, i, n) == IF i < Len(mats) THEN mats[i + 1][2] ELSE n

RangeEmpty(mats, i, n) == mats[i][2] >= RangeEnd(mats, i, n)

RECURSIVE RangesFrom(_, _, _)
RangesFrom(mats, i, n) ==
    IF i > Len(mats) THEN <<>>
    ELSE IF RangeEmpty(mats, i, n) THEN RangesFrom(mats, i + 1, n)
    ELSE <<<<mats[i][1], RangeEnd(mats, i, n) - mats[i][2]>>>>
             \o RangesFrom(mats, i + 1, n)

\* the scenario of the specification: [(A,0),(B,4),(C,4)] with 10 indices
ScenarioRuns ==
    ConvertMaterials(<<<<"A", 0>>, <<"B", 4>>, <<"C", 4>>>>, 10, TRUE).runs

\* C2: build() turns the (material, start offset) list into (material, length)
\* runs, each the half-open range up to the next offset, the last one up to the
\* index count; empty ranges are dropped, order is kept, equal neighbours are not
\* merged; [(A,0),(B,4),(C,4)] with 10 indices gives [(A,4),(C,6)].
C2_RunsAreTheRanges ==
    /\ ScenarioRuns = <<<<"A", 4>>, <<"C", 6>>>>
    /\ (call.op = "build" /\ call.ret = "Some") =>
           call.mesh.materials = RangesFrom(materials, 1, Len(indices))

NoDanglingIndex == \A i \in 1..Len(indices) : indices[i] < Len(vertices)

\* C3 as stated: after any sequence of extend calls every stored index is less
\* than the vertex count.
C3_NoDanglingIndex == NoDanglingIndex

\* an extend step appends some input batch, each index raised by the vertex
\* count held before the call
AppendsOffsetBatch ==
    \E nv \in 0..MaxBatchVerts :
        \E n \in 0..MaxBatchIdx :
            /\ Len(vertices') = Len(vertices) + nv
            /\ Len(indices') = Len(indices) + n
            /\ SubSeq(indices', 1, Len(indices)) = indices
            /\ \A i \in 1..n :
                   indices'[Len(indices) + i] - Len(vertices) \in 0..MaxInIdx

\* C3, amended: when every extend (or extend_with) call was given indices below
\* the number of vertices of that same call, every stored index is less than the
\* vertex count; and each appended index is the input index plus the vertex count
\* held before the call.
C3_NoDanglingWhenInputsValid ==
    /\ [](inputs_valid => NoDanglingIndex)
    /\ [][call'.op \in {"extend", "extend_with"} /\ call' # call
            => AppendsOffsetBatch]_vars

\* an extend call with valid input onto a builder that already held vertices
C3_Witness ==
    /\ call.op = "extend"
    /\ inputs_valid
    /\ Len(indices) = MaxIndices
    /\ \E i \in 1..Len(indices) : indices[i] > 0
    /\ NoDanglingIndex

\* C4: build() on a builder with no vertex returns None, whatever its indices
\* and materials, and has written no buffer.
C4_EmptyBuildReturnsNone ==
    (call.op = "build" /\ vertices = <<>>) =>
        (call.ret = "None" /\ ~call.wrote)

\* build() was called with no vertex, but with indices and materials
C4_Witness ==
    /\ call.op = "build"
    /\ vertices = <<>>
    /\ indices # <<>>
    /\ Len(materials) > 1
    /\ call.ret = "None"

NonDecreasing(s) == \A i \in 1..Len(s) : \A j \in 1..Len(s) : i < j => s[i] <= s[j]

StrictlyIncreasing(s) == \A i \in 1..Len(s) : \A j \in 1..Len(s) : i < j => s[i] < s[j]

FirstOffsetZero == with_mat => (materials # <<>> /\ materials[1][2] = 0)

\* C9 as stated: without clear(), the start offsets are strictly increasing and
\* the first one is 0 for a builder made by new(mat).
C9_OffsetsStrictlyIncreasing ==
    ~cleared => (StrictlyIncreasing(Offsets) /\ FirstOffsetZero)

\* C9, amended: without clear(), the start offsets never decrease in list order
\* (two neighbours are equal when set_material is called twice with no index
\* pushed in between), and the first one is 0 for a builder made by new(mat).
C9_OffsetsNonDecreasing ==
    ~cleared => (NonDecreasing(Offsets) /\ FirstOffsetZero)

\* three entries, the last two at the same offset past indices of the first
C9_Witness ==
    /\ ~cleared
    /\ with_mat
    /\ Len(materials) = 3
    /\ materials[2][2] > 0
    /\ materials[2][2] = materials[3][2]

\* ---------------------------------------------------------------- TerrainRender
\* C5: an update call that starts with B > UPD_PER_FRAME notifications, all for
\* existing chunks whose update succeeds, applies exactly UPD_PER_FRAME chunks and
\* leaves B - UPD_PER_FRAME notifications queued.
C5_BudgetRespected ==
    (/\ t_pc = "done"
     /\ start_pending > UPD_PER_FRAME
     /\ all_applied
     /\ pending.missing = 0) =>
        /\ uploads = UPD_PER_FRAME
        /\ PendingTotal = start_pending - UPD_PER_FRAME

\* ---------------------------------------------------------------- UI blur
\* how many passes of the invocation render to / sample mip level l
Writes(l) == Cardinality({i \in 1..Len(passes) : passes[i].view = l})

Reads(l) == Cardinality({i \in 1..Len(passes) : passes[i].bind_group_src = l})

\* C6 as stated: in one gen_ui_blur, mip level 0 is written exactly once and
\* every intermediate level is read exactly once and written exactly once.
C6_EachLevelOnce ==
    b_pc = "done" =>
        /\ Writes(0) = 1
        /\ \A l \in 1..(DOWNSCALE_PASSES - 1) : Reads(l) = 1 /\ Writes(l) = 1

\* C6, amended: in one gen_ui_blur, mip level 0 is written exactly twice (by the
\* initial downscale and by the last upscale pass) and read once; every level
\* strictly between 0 and DOWNSCALE_PASSES is read exactly twice and written
\* exactly twice; level DOWNSCALE_PASSES is written once and read once.
C6_LevelAccessCounts ==
    b_pc = "done" =>
        /\ Writes(0) = 2 /\ Reads(0) = 1
        /\ \A l \in 1..(DOWNSCALE_PASSES - 1) : Reads(l) = 2 /\ Writes(l) = 2
        /\ Writes(DOWNSCALE_PASSES) = 1 /\ Reads(DOWNSCALE_PASSES) = 1

\* a second invocation has run to its end
C6_Witness ==
    /\ b_pc = "done"
    /\ Len(passes) = 1 + 2 * DOWNSCALE_PASSES
    /\ ui_blur[0].frame = 2
    /\ ui_blur[DOWNSCALE_PASSES].frame = 2

\* ---------------------------------------------------------------- Mesh (Drawable)
\* C7: draw_depth on a Mesh with skip_depth set issues no command (no draw, no
\* buffer, pipeline or bind group) and no telemetry, whatever its runs and
\* whether or not a shadow cascade is passed.
C7_SkipDepthDrawsNothing ==
    (d_call.op = "draw_depth" /\ mesh.skip_depth) => (rp = <<>> /\ perf = <<>>)

\* draw_depth with a cascade on a skip_depth mesh of two runs, one transparent
C7_Witness ==
    /\ d_call.op = "draw_depth"
    /\ d_call.shadow_cascade
    /\ mesh.skip_depth
    /\ Len(mesh.materials) = MaxRuns
    /\ \E i \in 1..Len(mesh.materials) : transparent[mesh.materials[i][1]]

\* C8: equal keys get the identical cached pipeline: a key's builder is invoked on
\* the first call only, the pipeline every call returns is the one that
\* compilation made, and no cache entry is ever dropped or replaced.
C8_PipelineBuiltOnce ==
    /\ [](\A k \in PipelineKeys : builds[k] <= 1 /\ pipelines[k] = builds[k])
    /\ [](\A i \in 1..Len(rp) :
              rp[i].cmd = "set_pipeline" =>
                  (rp[i].pipeline = 1 /\ rp[i].pipeline = pipelines[rp[i].key]))
    /\ [][\A k \in PipelineKeys :
              pipelines[k] # 0 =>
                  (pipelines'[k] = pipelines[k] /\ builds'[k] = builds[k])]_vars

\* one draw asked twice for the same key, after a draw_depth had filled the cache
C8_Witness ==
    /\ d_call.op = "draw"
    /\ Len(mesh.materials) = 2
    /\ builds[MeshKey(FALSE, FALSE, FALSE, FALSE)] = 1
    /\ \E k \in MeshPipeline : k.depth /\ builds[k] = 1

\* the positions of the commands cmd in log, ascending
RECURSIVE PositionsFrom(_, _, _)
PositionsFrom(log, cmd, i) ==
    IF i > Len(log) THEN <<>>
    ELSE (IF log[i].cmd = cmd THEN <<i>> ELSE <<>>) \o PositionsFrom(log, cmd, i + 1)

\* C10: draw_depth on a Mesh without skip_depth issues, for each run in run order,
\* exactly one indexed draw, under the pipeline key (instanced = false, alpha =
\* the material is transparent, smap = a cascade was passed, depth = true), and
\* binds the run's material bind group if and only if the material is transparent.
C10_DepthDrawPerRun ==
    (d_call.op = "draw_depth" /\ ~mesh.skip_depth) =>
        LET pos == PositionsFrom(rp, "draw_indexed", 1)
        IN /\ Len(pos) = Len(mesh.materials)
           /\ Len(perf) = Len(mesh.materials)
           /\ (pos # <<>> => pos[Len(pos)] = Len(rp))
           /\ \A k \in 1..Len(pos) :
                  LET mat == mesh.materials[k][1]
                      seg == (IF k = 1 THEN 1 ELSE pos[k - 1] + 1)..pos[k]
                      pipes == {i \in seg : rp[i].cmd = "set_pipeline"}
                      binds == {i \in seg : rp[i].cmd = "set_bind_group"}
                  IN /\ Cardinality(pipes) = 1
                     /\ \A i \in pipes :
                            rp[i].key = MeshKey(FALSE, transparent[mat],
                                                d_call.shadow_cascade, TRUE)
                     /\ (binds # {}) <=> transparent[mat]
                     /\ \A i \in binds : rp[i].bg = "material" /\ rp[i].mat = mat
                     /\ rp[pos[k]].end - rp[pos[k]].first = mesh.materials[k][2]

\* draw_depth with a cascade on a mesh with a transparent and an opaque run
C10_Witness ==
    /\ d_call.op = "draw_depth"
    /\ d_call.shadow_cascade
    /\ ~mesh.skip_depth
    /\ Len(mesh.materials) = 2
    /\ transparent[mesh.materials[1][1]]
    /\ ~transparent[mesh.materials[2][1]]
    /\ mesh.materials[1][2] # mesh.materials[2][2]

\* C11: draw issues exactly one indexed draw per run, in run order, over the index
\* range [offset, offset + count) where the offsets are the prefix sums of the
\* run lengths: the first range starts at 0, each range starts where the one
\* before it ends, and together they cover exactly [0, sum of the run lengths).
C11_DrawRangesArePrefixSums ==
    (d_call.op = "draw") =>
        LET pos == PositionsFrom(rp, "draw_indexed", 1)
            lens == RunLengths(mesh)
        IN /\ Len(pos) = Len(mesh.materials)
           /\ \A k \in 1..Len(pos) :
                  /\ rp[pos[k]].first = (IF k = 1 THEN 0 ELSE rp[pos[k - 1]].end)
                  /\ rp[pos[k]].end - rp[pos[k]].first = mesh.materials[k][2]
                  /\ \E i \in (IF k = 1 THEN 1 ELSE pos[k - 1] + 1)..pos[k] :
                         /\ rp[i].cmd = "set_bind_group"
                         /\ rp[i].bg = "material"
                         /\ rp[i].mat = mesh.materials[k][1]
           /\ (pos # <<>> => rp[pos[Len(pos)]].end = SumSeq(lens))
           /\ \A j \in 0..(SumSeq(lens) - 1) :
                  Cardinality({k \in 1..Len(pos) :
                                  rp[pos[k]].first <= j /\ j < rp[pos[k]].end}) = 1

\* draw on a mesh of two runs of different lengths
C11_Witness ==
    /\ d_call.op = "draw"
    /\ Len(mesh.materials) = 2
    /\ mesh.materials[1][2] = MaxRunLen
    /\ mesh.materials[2][2] = 1
    /\ Len(PositionsFrom(rp, "draw_indexed", 1)) = 2

\* ---------------------------------------------------------------- MeshPipeline
DepthPipelines == {"depth_pipeline", "depth_pipeline_bglayout"}

\* C12: for each of the 16 MeshPipeline keys, build selects the instanced vertex
\* shader and the two-buffer vertex layout iff instanced; with depth false the
\* lit color pipeline with the pixel fragment shader; with depth true and alpha
\* false a depth pipeline with no fragment shader; with depth and alpha true a
\* depth pipeline with the alpha-discard fragment shader and only the projection
\* and material bind-group layouts; smap reaches the depth pipelines unchanged.
C12_BuildSelection ==
    \A k \in MeshPipeline :
        LET d == compiled[k]
        IN (pipelines[k] # 0) =>
            /\ (d.vert = "instanced_mesh.vert") <=> k.instanced
            /\ (d.vert = "lit_mesh.vert") <=> ~k.instanced
            /\ (Len(d.vb) = 2) <=> k.instanced
            /\ d.vb = IF k.instanced THEN <<"MeshVertex", "MeshInstance">>
                                     ELSE <<"MeshVertex">>
            /\ ~k.depth =>
                   (d.fn = "color_pipeline" /\ d.label = "lit_mesh"
                        /\ d.frag = "pixel.frag")
            /\ (k.depth /\ ~k.alpha) =>
                   (d.fn \in DepthPipelines /\ d.frag = None /\ d.smap = k.smap)
            /\ (k.depth /\ k.alpha) =>
                   /\ d.fn \in DepthPipelines
                   /\ d.frag = "alpha_discard.frag"
                   /\ d.layouts = <<"projection", "Material">>
                   /\ d.smap = k.smap

\* every one of the 16 keys has been built
C12_Witness ==
    /\ Cardinality(MeshPipeline) = 16
    /\ \A k \in MeshPipeline : pipelines[k] # 0 /\ compiled[k] # NoPipeline

\* ---------------------------------------------------------------- TerrainRender (2)
\* C13: a notification for a chunk absent from the map does not halt the frame's
\* drain: the update call makes no GPU write for it and goes on taking the pending
\* notifications, so a call ends only with the queue empty or the per-frame
\* budget used up.
C13_MissingChunkDoesNotStopDrain ==
    /\ uploads = update_count
    /\ (t_pc = "done" /\ PendingTotal > 0) => update_count >= UPD_PER_FRAME

\* ---------------------------------------------------------------- UI blur (2)
\* C14: every pass of the upscale phase draws with the Upscale pipeline variant
\* and every pass of the downscale phase with the Downscale variant: the pipeline
\* set on a pass's render pass is the variant passed to do_pass.
C14_PassDrawsWithItsVariant ==
    \A i \in 2..Len(passes) :
        /\ passes[i].pipeline =
               (IF i <= 1 + DOWNSCALE_PASSES THEN "Downscale" ELSE "Upscale")
        /\ passes[i].set_pipeline = passes[i].pipeline

\* the <<source, destination>> of each pass recorded, in order
PassLevels ==
    [i \in 1..Len(passes) |-> <<passes[i].bind_group_src, passes[i].view>>]

\* frame -> 0; L -> L + 1 for L = 0..N-1; L + 1 -> L for L = N-1..0
ExpectedPasses ==
    <<<<FrameView, 0>>>>
        \o [i \in 1..DOWNSCALE_PASSES |-> <<i - 1, i>>]
        \o [i \in 1..DOWNSCALE_PASSES |->
               <<DOWNSCALE_PASSES - i + 1, DOWNSCALE_PASSES - i>>]

\* C15: gen_ui_blur issues exactly 1 + 2N passes (N = DOWNSCALE_PASSES), in this
\* order: frame into mip 0; L into L + 1 for L ascending from 0 to N - 1; L + 1
\* into L for L descending from N - 1 to 0. No pass reads the level it writes and
\* every level accessed lies in 0..N, the 1 + N levels gen_blur_texture allocates.
C15_PassOrder ==
    /\ Len(passes) <= Len(ExpectedPasses)
    /\ PassLevels = SubSeq(ExpectedPasses, 1, Len(passes))
    /\ b_pc = "done" => Len(passes) = 1 + 2 * DOWNSCALE_PASSES
    /\ Cardinality(MipLevels) = 1 + DOWNSCALE_PASSES
    /\ \A i \in 1..Len(passes) :
           /\ passes[i].bind_group_src # passes[i].view
           /\ passes[i].view \in MipLevels
           /\ passes[i].bind_group_src \in
                  (IF i = 1 THEN {FrameView} ELSE MipLevels)

\* an invocation that has recorded its last upscale pass
C15_Witness ==
    /\ b_pc = "done"
    /\ Len(passes) = 1 + 2 * DOWNSCALE_PASSES
    /\ passes[Len(passes)].bind_group_src = 1
    /\ passes[Len(passes)].view = 0
    /\ passes[1 + DOWNSCALE_PASSES].view = DOWNSCALE_PASSES

\* ---------------------------------------------------------------- TerrainRender (3)
\* a step that adds no dirty-chunk notification
NoNewNotification ==
    /\ pending'.existing <= pending.existing
    /\ pending'.missing <= pending.missing

\* C16: every update call terminates; outside a call no notification leaves the
\* queue (what a call did not take is there for the next one); and if from some
\* point on no new notification arrives, with update called every frame, then
\* eventually no notification is pending, and it stays so.
C16_BacklogDrains ==
    /\ (t_pc = "draining") ~> (t_pc = "done")
    /\ [][t_pc # "draining" =>
             (pending'.existing >= pending.existing
                 /\ pending'.missing >= pending.missing)]_vars
    /\ (<>[][NoNewNotification]_vars) => <>[](PendingTotal = 0)

\* a call that ran out of budget and left a backlog, one of it a missing chunk
C16_Witness ==
    /\ t_pc = "done"
    /\ t_exit = "budget"
    /\ pending.existing > 0
    /\ pending.missing > 0

\* ---------------------------------------------------------------- WindowBase
\* C17: WindowBase::layout panics whenever the window node has a number of
\* children other than one (more than one, or none), without laying out or
\* placing any child; with exactly one child it lays that child out, sets its
\* position and returns (Vec2::ZERO) without failure.
C17_LayoutNeedsOneChild ==
    (w_call.op = "layout") =>
        /\ (w_call.ret = "panic") <=> (Len(w_children) # 1)
        /\ (Len(w_children) # 1) =>
               (w_call.laid_out = <<>> /\ w_call.set_pos = <<>>)
        /\ (Len(w_children) = 1) =>
               /\ w_call.ret = "ZERO"
               /\ w_call.laid_out = <<w_children[1]>>
               /\ w_call.set_pos = <<w_children[1]>>
               /\ w_pos[w_children[1]] # NoPos

\* a one-child window dragged off centre and laid out with a child as large as
\* the viewport
C17_Witness ==
    /\ w_call.op = "layout"
    /\ Len(w_children) = 1
    /\ w_off # ZERO
    /\ w_call.size = w_call.vp
    /\ w_pos[w_children[1]] = ZERO

\* ---------------------------------------------------------------- MeshBuilder (2)
\* C18: in every builder state reached through new / new_without_mat, extend,
\* extend_with, set_material, clear and earlier builds, the subtraction end - start
\* that build performs does not underflow: each material offset is at most the
\* next entry's offset and at most the index count, also after clear and refill.
C18_RunLengthNeverUnderflows ==
    (call.op = "build" /\ call.wrote) =>
        /\ call.ret # "panic"
        /\ \A i \in 1..Len(materials) :
               /\ materials[i][2] <= RangeEnd(materials, i, Len(indices))
               /\ materials[i][2] <= Len(indices)
        /\ \A i \in 1..Len(call.mesh.materials) : call.mesh.materials[i][2] > 0

====
